---- MODULE Spec2Model ----
(***************************************************************************)
(* iNewsFlow: the article identity, aggregation and engagement-state       *)
(* subsystem of the news server (src/public/app.js, server half from line  *)
(* 879) together with the client handlers that call it.                    *)
(*                                                                         *)
(* Every HTTP handler is one action: a handler runs to completion between  *)
(* suspension points, and the only suspension point of the list and        *)
(* trending handlers (the upstream fetch) precedes every read and write of *)
(* the shared maps, so the upstream answer is an input of the action.      *)
(*                                                                         *)
(* resp holds the request just served with its response, until the client  *)
(* takes it (Receive).  No handler reads resp, so serving one request per  *)
(* response taken restricts neither the states the maps reach nor the      *)
(* responses a request can get.  Beside the response resp records the      *)
(* request's inputs (fetched: the upstream answers, at: the clock, oks: the *)
(* outcomes of the writes), the list handler's allArticles (upserted) and  *)
(* filteredItems (filtered), and the outcome of the last write (saved).    *)
(***************************************************************************)
EXTENDS Integers, Sequences, FiniteSets, TLC

VARIABLES
    users,         \* db.users: array of {username, password}
    likesDB,       \* db.likesDB: id -> {count, users (a JS Set: insertion ordered, no duplicates)}
    articleStore,  \* articleStore: id -> article record
    commentsDB,    \* commentsDB: id -> array of comment records
    disk,          \* data.json as last written by saveDB
    now,           \* the process clock read by Date.now() / new Date()
    parity,        \* history: parity of the like toggles applied per (id, username)
    resp,          \* the request just served and its response, on its way to the client
    pending,       \* the list handlers suspended at their await, by connection
    state,         \* the page's state object: category, q, page, busy, eof
    feed,          \* the cards in #feed, each with the request that brought it
    fetches,       \* the page's /api/news requests that have no answer yet
    asked          \* history: the last page asked for since the last refresh, 0 if none

\* the page in the browser
browser == <<state, feed, fetches, asked>>

vars == <<users, likesDB, articleStore, commentsDB, disk, now, parity, resp, pending,
          browser>>

(***************************************************************************)
(* Bounds of the exploration.                                              *)
(***************************************************************************)
MaxTime == 1        \* the clock runs over 0..MaxTime
MaxComments == 2    \* comments stored per article
MaxFeed == 2        \* raw records one request receives from upstream
MaxPage == 3        \* page numbers requested: 1..MaxPage
MaxPageSize == 2    \* page sizes requested: 1..MaxPageSize
MaxInFlight == 2    \* list requests served at the same time

(***************************************************************************)
(* Values.  "" stands for every falsy string-valued input (undefined,      *)
(* null, the empty string); 0 is the missing publishedAt.                  *)
(***************************************************************************)
NoUser == ""

\* no response is on its way to a client
NoResponse == [op |-> "none", status |-> 0, saved |-> "none"]

Idle == resp = NoResponse
Usernames == {"alice", "bob"}

\* crypto.createHash('sha1').update(String(url)).digest('hex'), taken as
\* collision free: the digest is the tagged url.
Sha1Url(url) == <<"sha1", url, 0>>

\* `local_${Date.now()}`
LocalId(t) == <<"local", "", t>>

makeIdFromUrl(url, t) == IF url = "" THEN LocalId(t) ELSE Sha1Url(url)

\* ids a client can put in the path of an engagement request: the id of a
\* real article and a placeholder id handed out by the trending fallback
EngagementIds == {Sha1Url("u1"), <<"local_tr", "", 1>>}

(***************************************************************************)
(* Sequence helpers for JS arrays and insertion-ordered Sets.              *)
(***************************************************************************)
Range(s) == {s[i] : i \in 1..Len(s)}

Includes(s, x) == \E i \in 1..Len(s) : s[i] = x

\* Set.prototype.delete / Array.prototype.splice(indexOf(x), 1)
RECURSIVE Without(_, _)
Without(s, x) ==
    IF s = <<>> THEN <<>>
    ELSE IF Head(s) = x THEN Tail(s)
    ELSE <<Head(s)>> \o Without(Tail(s), x)

Reverse(s) == [i \in 1..Len(s) |-> s[Len(s) + 1 - i]]

NoDuplicates(s) == \A i, j \in 1..Len(s) : s[i] = s[j] => i = j

(***************************************************************************)
(* saveDB: the whole in-memory state serialised to data.json.  The write   *)
(* (fs.writeFileSync) either succeeds or throws, leaving the file as it    *)
(* was.                                                                    *)
(*                                                                         *)
(* A file is missing, or unparseable, or holds the four sections.  Its     *)
(* likesDB section is the sequence of the JSON object's entries, each an   *)
(* id with null or with {count, users}; count is 0 and users [] where the  *)
(* property is missing.                                                    *)
(***************************************************************************)
NoFile == [exists |-> FALSE]

\* Object.entries(db.likesDB).map(([id, val]) => [id, {count, users: Array.from(val.users)}]).
\* The key order of the object is not kept by the model: saveDB writes no
\* null entry, and the load depends on the order only through null entries.
RECURSIVE Entries(_, _)
Entries(l, ids) ==
    IF ids = {} THEN <<>>
    ELSE LET id == CHOOSE x \in ids : TRUE
         IN  <<[id |-> id, isNull |-> FALSE, count |-> l[id].count, users |-> l[id].users]>>
                \o Entries(l, ids \ {id})

toSaveWithoutCatalog(u, l, a, c) ==
    [exists |-> TRUE,
     parses |-> TRUE,
     users |-> u,
     likesDB |-> Entries(l, DOMAIN l),
     articleStore |-> <<>>,
     commentsDB |-> <<>>]

toSave(u, l, a, c) ==
    [exists |-> TRUE,
     parses |-> TRUE,
     users |-> u,
     likesDB |-> Entries(l, DOMAIN l),
     articleStore |-> a,
     commentsDB |-> c]

saveDB(ok, u, l, a, c) == IF ok THEN toSave(u, l, a, c) ELSE disk

\* what a request has to say about its last saveDB call
Saved(attempted, ok) == IF ~attempted THEN "none" ELSE IF ok THEN "ok" ELSE "failed"

(***************************************************************************)
(* POST /api/articles/:id/like                                             *)
(***************************************************************************)
NewLikeRecord == [count |-> 0, users |-> <<>>]

LikeRecordOf(l, id) == IF id \in DOMAIN l THEN l[id] ELSE NewLikeRecord

\* likesDB[id]?.count || 0
LikeCount(l, id) == IF id \in DOMAIN l THEN l[id].count ELSE 0

UnlikeKeepsCount(rec, username) ==
    [count |-> rec.count, users |-> Without(rec.users, username)]

UnlikeKeepsUser(rec, username) ==
    [count |-> rec.count - 1, users |-> rec.users]

Unlike(rec, username) ==
    [count |-> rec.count - 1, users |-> Without(rec.users, username)]

LikeForgetsOthers(rec, username) ==
    [count |-> rec.count + 1, users |-> <<username>>]

Like(rec, username) ==
    [count |-> rec.count + 1, users |-> Append(rec.users, username)]

Put(f, k, v) == [x \in DOMAIN f \cup {k} |-> IF x = k THEN v ELSE f[x]]

ArticleLikeRollsBack(id, username, ok) ==
    IF username = NoUser
    THEN /\ resp' = [op |-> "like", id |-> id, username |-> username, status |-> 401,
                     saved |-> "none"]
         /\ UNCHANGED <<users, likesDB, articleStore, commentsDB, disk, now, pending,
                        browser, parity>>
    ELSE LET rec == LikeRecordOf(likesDB, id)
             has == Includes(rec.users, username)
             new == IF has THEN Unlike(rec, username) ELSE Like(rec, username)
         IN  /\ likesDB' = IF ok THEN Put(likesDB, id, new) ELSE likesDB
             /\ parity' = [parity EXCEPT ![id][username] = 1 - @]
             /\ disk' = saveDB(ok, users, likesDB', articleStore, commentsDB)
             /\ resp' = IF ok
                        THEN [op |-> "like", id |-> id, username |-> username,
                              status |-> 200, likes |-> new.count, liked |-> ~has,
                              saved |-> "ok"]
                        ELSE [op |-> "like", id |-> id, username |-> username,
                              status |-> 500, saved |-> "failed"]
             /\ UNCHANGED <<users, articleStore, commentsDB, now, pending, browser>>

ArticleLike(id, username, ok) ==
    IF username = NoUser
    THEN /\ resp' = [op |-> "like", id |-> id, username |-> username, status |-> 401,
                     saved |-> "none"]
         /\ UNCHANGED <<users, likesDB, articleStore, commentsDB, disk, now, pending,
                        browser, parity>>
    ELSE LET rec == LikeRecordOf(likesDB, id)
             has == Includes(rec.users, username)
             new == IF has THEN Unlike(rec, username) ELSE Like(rec, username)
         IN  /\ likesDB' = Put(likesDB, id, new)
             /\ parity' = [parity EXCEPT ![id][username] = 1 - @]
             /\ disk' = saveDB(ok, users, likesDB', articleStore, commentsDB)
             \* saveDB() is not guarded here: a failed write propagates to the
             \* framework, which answers 500
             /\ resp' = IF ok
                        THEN [op |-> "like", id |-> id, username |-> username,
                              status |-> 200, likes |-> new.count, liked |-> ~has,
                              saved |-> "ok"]
                        ELSE [op |-> "like", id |-> id, username |-> username,
                              status |-> 500, saved |-> "failed"]
             /\ UNCHANGED <<users, articleStore, commentsDB, now, pending, browser>>

(***************************************************************************)
(* Comment text.  A string is kept as the sequence of its runs of equal    *)
(* characters, <<character, length>>, adjacent runs differing in the       *)
(* character: "  aa " is << <<" ", 2>>, <<"a", 2>>, <<" ", 1>> >>.          *)
(***************************************************************************)
MaxCommentLen == 300

Rep(n) == <<<<"a", n>>>>

Spaces(n) == <<<<" ", n>>>>

RECURSIVE Length(_)
Length(t) == IF t = <<>> THEN 0 ELSE Head(t)[2] + Length(Tail(t))

TrimKeepsBlanks(t) == t

\* String.prototype.trim: the leading and the trailing run of blanks go
Trim(t) ==
    LET a == IF t # <<>> /\ Head(t)[1] = " " THEN Tail(t) ELSE t
    IN  IF a # <<>> /\ a[Len(a)][1] = " " THEN SubSeq(a, 1, Len(a) - 1) ELSE a

\* texts a request body or the comment box can carry
Texts ==
    {<<>>, Spaces(2),
     Spaces(1) \o Rep(MaxCommentLen) \o Spaces(1),
     Rep(MaxCommentLen + 1)}

\* crypto.createHash('sha1').update(`${id}|${username}|${createdAt}|${text}`),
\* taken as collision free: the digest is the hashed tuple.
Sha1Comment(id, username, createdAt, text) == <<id, username, createdAt, text>>

NoCommentId == <<>>

CommentsOf(c, id) == IF id \in DOMAIN c THEN c[id] ELSE <<>>

(***************************************************************************)
(* GET /api/articles/:id/comments?username=                                *)
(***************************************************************************)
\* the lazy upgrade of a comment stored without an id
Upgraded(id, it) ==
    IF it.id = NoCommentId
    THEN [it EXCEPT !.id = Sha1Comment(id, it.username, it.createdAt, it.text),
                    !.likedBy = IF it.hasLikedBy THEN it.likedBy ELSE <<>>,
                    !.hasLikedBy = TRUE]
    ELSE it

CommentView(it, username) ==
    [id |-> it.id, username |-> it.username, text |-> it.text,
     createdAt |-> it.createdAt, likedBy |-> it.likedBy,
     likes |-> IF it.hasLikedBy THEN Len(it.likedBy) ELSE it.likes,
     liked |-> username # NoUser /\ it.hasLikedBy /\ Includes(it.likedBy, username)]

\* items.map(...): the views in stored order
Out(items, username) ==
    [i \in 1..Len(items) |-> CommentView(items[i], username)]

ListComments(id, username, ok) ==
    LET items == CommentsOf(commentsDB, id)
        up == [i \in 1..Len(items) |-> Upgraded(id, items[i])]
        mutated == \E i \in 1..Len(items) : items[i].id = NoCommentId
    IN  /\ commentsDB' = IF mutated THEN Put(commentsDB, id, up) ELSE commentsDB
        /\ disk' = IF mutated
                   THEN saveDB(ok, users, likesDB, articleStore, commentsDB')
                   ELSE disk
        /\ resp' = [op |-> "listComments", id |-> id, username |-> username,
                    status |-> 200, items |-> Out(up, username),
                    saved |-> Saved(mutated, ok)]
        /\ UNCHANGED <<users, likesDB, articleStore, now, pending, browser, parity>>

(***************************************************************************)
(* POST /api/articles/:id/comments                                         *)
(***************************************************************************)
PostComment(id, username, text, ok) ==
    IF username = NoUser
    THEN /\ resp' = [op |-> "comment", id |-> id, username |-> username,
                     text |-> text, status |-> 401, saved |-> "none"]
         /\ UNCHANGED <<users, likesDB, articleStore, commentsDB, disk, now, pending,
                        browser, parity>>
    ELSE IF text = <<>> \/ Trim(text) = <<>>
    THEN /\ resp' = [op |-> "comment", id |-> id, username |-> username,
                     text |-> text, status |-> 400, saved |-> "none"]
         /\ UNCHANGED <<users, likesDB, articleStore, commentsDB, disk, now, pending,
                        browser, parity>>
    ELSE LET createdAt == now
             item == [id |-> Sha1Comment(id, username, createdAt, Trim(text)),
                      username |-> username, text |-> Trim(text),
                      createdAt |-> createdAt, likedBy |-> <<>>,
                      hasLikedBy |-> TRUE, likes |-> 0]
         IN  /\ Len(CommentsOf(commentsDB, id)) < MaxComments
             /\ commentsDB' = Put(commentsDB, id, Append(CommentsOf(commentsDB, id), item))
             /\ disk' = saveDB(ok, users, likesDB, articleStore, commentsDB')
             /\ resp' = [op |-> "comment", id |-> id, username |-> username,
                         text |-> text, status |-> 200, comment |-> item,
                         saved |-> Saved(TRUE, ok)]
             /\ UNCHANGED <<users, likesDB, articleStore, now, pending, browser, parity>>

(***************************************************************************)
(* submitComment.onclick: the comment box of the article modal.            *)
(* currentUser is the user signed in at that browser, value the content of *)
(* the box.                                                                *)
(***************************************************************************)
SubmitComment(id, currentUser, value, ok) ==
    LET txt == Trim(value)
    IN  IF currentUser = NoUser \/ txt = <<>> \/ Length(txt) > MaxCommentLen
        THEN /\ resp' = [op |-> "submitComment", id |-> id, username |-> currentUser,
                         text |-> value, status |-> 0, saved |-> "none"]
             /\ UNCHANGED <<users, likesDB, articleStore, commentsDB, disk, now, pending,
                            browser, parity>>
        ELSE PostComment(id, currentUser, txt, ok)

(***************************************************************************)
(* POST /api/articles/:id/comments/:commentId/like                         *)
(***************************************************************************)
ToggleLikedByKeepsUser(c, username) ==
    LET likedBy == IF c.hasLikedBy THEN c.likedBy ELSE <<>>
        new == Append(likedBy, username)
    IN  [c EXCEPT !.likedBy = new, !.hasLikedBy = TRUE, !.likes = Len(new)]

ToggleLikedBy(c, username) ==
    LET likedBy == IF c.hasLikedBy THEN c.likedBy ELSE <<>>
        new == IF Includes(likedBy, username)
               THEN Without(likedBy, username)
               ELSE Append(likedBy, username)
    IN  [c EXCEPT !.likedBy = new, !.hasLikedBy = TRUE, !.likes = Len(new)]

CommentLike(id, commentId, username, ok) ==
    LET items == CommentsOf(commentsDB, id)
        found == {i \in 1..Len(items) : items[i].id = commentId}
    IN  IF username = NoUser
        THEN /\ resp' = [op |-> "commentLike", id |-> id, commentId |-> commentId,
                         username |-> username, status |-> 401, saved |-> "none"]
             /\ UNCHANGED <<users, likesDB, articleStore, commentsDB, disk, now, pending,
                            browser, parity>>
        ELSE IF found = {}
        THEN /\ resp' = [op |-> "commentLike", id |-> id, commentId |-> commentId,
                         username |-> username, status |-> 404, saved |-> "none"]
             /\ UNCHANGED <<users, likesDB, articleStore, commentsDB, disk, now, pending,
                            browser, parity>>
        ELSE LET k == CHOOSE i \in found : \A j \in found : i <= j  \* Array.prototype.find
                 c == ToggleLikedBy(items[k], username)
             IN  /\ commentsDB' = Put(commentsDB, id, [items EXCEPT ![k] = c])
                 /\ disk' = saveDB(ok, users, likesDB, articleStore, commentsDB')
                 /\ resp' = [op |-> "commentLike", id |-> id, commentId |-> commentId,
                             username |-> username, status |-> 200,
                             likes |-> c.likes, liked |-> Includes(c.likedBy, username),
                             saved |-> Saved(TRUE, ok)]
                 /\ UNCHANGED <<users, likesDB, articleStore, now, pending, browser, parity>>

(***************************************************************************)
(* Upstream feed (NewsAPI top-headlines).  A raw record carries url,       *)
(* title, description, urlToImage, publishedAt and source (source?.name);  *)
(* publishedAt is the instant its ISO string denotes, NoTime when missing. *)
(***************************************************************************)
NoTime == 0

ApiCategories == <<"technology", "business", "general", "sports">>

categoryMap(category) ==
    CASE category = "tech" -> "technology"
      [] category = "business" -> "business"
      [] category = "world" -> "general"
      [] category = "sports" -> "sports"
      [] OTHER -> "general"

reverseMap(apiCategory) ==
    CASE apiCategory = "technology" -> "tech"
      [] apiCategory = "business" -> "business"
      [] apiCategory = "general" -> "world"
      [] apiCategory = "sports" -> "sports"
      [] OTHER -> "world"

\* the headlines upstream can serve
RA == [url |-> "u1", title |-> "T1", description |-> "D1", urlToImage |-> "I1",
       publishedAt |-> 2, source |-> "S1"]
\* the same story syndicated under another title, every optional field missing
RB == [url |-> "u1", title |-> "T1b", description |-> "", urlToImage |-> "",
       publishedAt |-> NoTime, source |-> ""]
RC == [url |-> "u2", title |-> "T2", description |-> "D2", urlToImage |-> "",
       publishedAt |-> 3, source |-> "S2"]
\* a record without url
RD == [url |-> "", title |-> "T3", description |-> "", urlToImage |-> "",
       publishedAt |-> 1, source |-> ""]

Headlines(apiCategory) ==
    CASE apiCategory = "technology" -> {RA, RD}
      [] apiCategory = "business" -> {RB}
      [] apiCategory = "general" -> {RC}
      [] apiCategory = "sports" -> {}

RECURSIVE SeqsUpTo(_, _)
SeqsUpTo(S, n) ==
    IF n = 0 THEN {<<>>}
    ELSE LET shorter == SeqsUpTo(S, n - 1)
         IN  shorter \cup {Append(q, x) : q \in {r \in shorter : Len(r) = n - 1}, x \in S}

\* what one upstream call can answer: a failure (timeout, non-2xx, network)
\* or data.articles
Failed == [ok |-> FALSE, articles |-> <<>>]

Answers(apiCategory, n) ==
    {Failed} \cup {[ok |-> TRUE, articles |-> a] : a \in SeqsUpTo(Headlines(apiCategory), n)}

\* the answers of the four calls of one aggregate request, MaxFeed records in all
FanOutAnswers ==
    {f \in {[c \in Range(ApiCategories) |->
                CASE c = "technology" -> a1 [] c = "business" -> a2
                  [] c = "general" -> a3 [] c = "sports" -> a4] :
             a1 \in Answers("technology", MaxFeed), a2 \in Answers("business", MaxFeed),
             a3 \in Answers("general", MaxFeed), a4 \in Answers("sports", MaxFeed)} :
        Len(f["technology"].articles) + Len(f["business"].articles)
            + Len(f["general"].articles) + Len(f["sports"].articles) <= MaxFeed}

(***************************************************************************)
(* GET /api/news                                                           *)
(***************************************************************************)
\* (data.articles || []).map(a => ({ ...a, apiCategory: cat }))
Tagged(articles, cat) ==
    [i \in 1..Len(articles) |->
        [url |-> articles[i].url, title |-> articles[i].title,
         description |-> articles[i].description, urlToImage |-> articles[i].urlToImage,
         publishedAt |-> articles[i].publishedAt, source |-> articles[i].source,
         apiCategory |-> cat]]

\* Promise.all over calls without their own catch: the first failure
\* rejects the whole fan-out
RECURSIVE FlatStopsAtFailure(_, _)
FlatStopsAtFailure(f, k) ==
    IF k > Len(ApiCategories) THEN <<>>
    ELSE IF ~f[ApiCategories[k]].ok THEN <<>>
    ELSE Tagged(f[ApiCategories[k]].articles, ApiCategories[k])
            \o FlatStopsAtFailure(f, k + 1)

\* results.flat(): the categories' records in the order of categoriesToFetch,
\* a failed call contributing []
RECURSIVE Flat(_, _)
Flat(f, k) ==
    IF k > Len(ApiCategories) THEN <<>>
    ELSE Tagged(f[ApiCategories[k]].articles, ApiCategories[k]) \o Flat(f, k + 1)

\* new Date(a.publishedAt || 0).getTime()
GetTime(a) == IF a.publishedAt = NoTime THEN 0 ELSE a.publishedAt

\* Array.prototype.sort((a, b) => dateB - dateA): stable, latest first
RECURSIVE InsertByTime(_, _)
InsertByTime(sorted, a) ==
    IF sorted = <<>> THEN <<a>>
    ELSE IF GetTime(Head(sorted)) >= GetTime(a)
         THEN <<Head(sorted)>> \o InsertByTime(Tail(sorted), a)
         ELSE <<a>> \o sorted

SortUnsorted(as) == as

RECURSIVE SortByTime(_)
SortByTime(as) ==
    IF as = <<>> THEN <<>>
    ELSE InsertByTime(SortByTime(SubSeq(as, 1, Len(as) - 1)), as[Len(as)])

\* the seen-Set filter: records without url and repeated urls are dropped
DedupKeepsAll(as, seen) == as

RECURSIVE Dedup(_, _)
Dedup(as, seen) ==
    IF as = <<>> THEN <<>>
    ELSE IF Head(as).url = "" \/ Head(as).url \in seen
         THEN Dedup(Tail(as), seen)
         ELSE <<Head(as)>> \o Dedup(Tail(as), seen \cup {Head(as).url})

\* Array.from(new Set(array)): first occurrences, in order
RECURSIVE Distinct(_)
Distinct(s) ==
    IF s = <<>> THEN <<>>
    ELSE LET init == Distinct(SubSeq(s, 1, Len(s) - 1))
         IN  IF Includes(init, s[Len(s)]) THEN init ELSE Append(init, s[Len(s)])

\* a || b on strings and on timestamps
OrStr(a, b) == IF a # "" THEN a ELSE b
OrTime(a, b) == IF a # NoTime THEN a ELSE b

\* articleStore[id] || {}: a missing property reads as falsy
NoArticle ==
    [id |-> <<>>, title |-> "", summary |-> "", cover |-> "", publishedAt |-> NoTime,
     url |-> "", source |-> "", categories |-> <<>>, primaryCategory |-> "",
     category |-> ""]

Existing(store, id) == IF id \in DOMAIN store THEN store[id] ELSE NoArticle

MergedIncomingWins(existing, id, n) ==
    [id |-> id,
     title |-> n.title,
     summary |-> n.description,
     cover |-> n.urlToImage,
     publishedAt |-> n.publishedAt,
     url |-> n.url,
     source |-> n.source,
     categories |-> Distinct(existing.categories \o <<reverseMap(n.apiCategory), "news">>),
     primaryCategory |-> reverseMap(n.apiCategory),
     category |-> existing.category]

MergedRepeatsCategories(existing, id, n) ==
    [id |-> id,
     title |-> OrStr(n.title, existing.title),
     summary |-> OrStr(n.description, existing.summary),
     cover |-> OrStr(n.urlToImage, existing.cover),
     publishedAt |-> OrTime(n.publishedAt, existing.publishedAt),
     url |-> OrStr(n.url, existing.url),
     source |-> OrStr(n.source, OrStr(existing.source, "")),
     categories |-> existing.categories \o <<reverseMap(n.apiCategory), "news">>,
     primaryCategory |-> reverseMap(n.apiCategory),
     category |-> existing.category]

MergedExistingWins(existing, id, n) ==
    [id |-> id,
     title |-> OrStr(existing.title, n.title),
     summary |-> OrStr(existing.summary, n.description),
     cover |-> OrStr(existing.cover, n.urlToImage),
     publishedAt |-> OrTime(existing.publishedAt, n.publishedAt),
     url |-> OrStr(existing.url, n.url),
     source |-> OrStr(existing.source, n.source),
     categories |-> Distinct(existing.categories \o <<reverseMap(n.apiCategory), "news">>),
     primaryCategory |-> reverseMap(n.apiCategory),
     category |-> existing.category]

MergedReplacesCategories(existing, id, n) ==
    [id |-> id,
     title |-> OrStr(n.title, existing.title),
     summary |-> OrStr(n.description, existing.summary),
     cover |-> OrStr(n.urlToImage, existing.cover),
     publishedAt |-> OrTime(n.publishedAt, existing.publishedAt),
     url |-> OrStr(n.url, existing.url),
     source |-> OrStr(n.source, OrStr(existing.source, "")),
     categories |-> <<reverseMap(n.apiCategory), "news">>,
     primaryCategory |-> reverseMap(n.apiCategory),
     category |-> existing.category]

\* Object.assign({}, existing, {...}) of the list handler
Merged(existing, id, n) ==
    [id |-> id,
     title |-> OrStr(n.title, existing.title),
     summary |-> OrStr(n.description, existing.summary),
     cover |-> OrStr(n.urlToImage, existing.cover),
     publishedAt |-> OrTime(n.publishedAt, existing.publishedAt),
     url |-> OrStr(n.url, existing.url),
     source |-> OrStr(n.source, OrStr(existing.source, "")),
     categories |-> Distinct(existing.categories \o <<reverseMap(n.apiCategory), "news">>),
     primaryCategory |-> reverseMap(n.apiCategory),
     category |-> existing.category]

\* the upserts of allArticles.map, in order, each reading the store the
\* previous ones left
RECURSIVE UpsertAll(_, _, _)
UpsertAll(store, as, t) ==
    IF as = <<>> THEN store
    ELSE LET id == makeIdFromUrl(Head(as).url, t)
         IN  UpsertAll(Put(store, id, Merged(Existing(store, id), id, Head(as))), Tail(as), t)

\* the item returned for a record
Item(n, category, t) ==
    [id |-> makeIdFromUrl(n.url, t),
     title |-> n.title, summary |-> n.description, cover |-> n.urlToImage,
     category |-> IF category = "news" THEN reverseMap(n.apiCategory) ELSE category,
     publishedAt |-> n.publishedAt,
     likes |-> LikeCount(likesDB, makeIdFromUrl(n.url, t)),
     url |-> n.url, source |-> n.source]

FilterKeepsAll(items, store, category) == items

\* items.filter(item => stored && stored.categories && stored.categories.includes(category))
Filter(items, store, category) ==
    IF category = "news" THEN items
    ELSE SelectSeq(items, LAMBDA it :
            it.id \in DOMAIN store /\ Includes(store[it.id].categories, category))

SliceFromPage(items, page, pageSize) ==
    SubSeq(items, page * pageSize + 1,
           IF page * pageSize + pageSize < Len(items)
           THEN page * pageSize + pageSize ELSE Len(items))

\* filteredItems.slice((page - 1) * pageSize, (page - 1) * pageSize + pageSize)
Slice(items, page, pageSize) ==
    LET startIdx == (page - 1) * pageSize
        endIdx == startIdx + pageSize
    IN  SubSeq(items, startIdx + 1, IF endIdx < Len(items) THEN endIdx ELSE Len(items))

\* the catch block's local mock articles
Sample(category, t) ==
    [k \in 1..2 |->
        [id |-> <<"local", IF k = 1 THEN "_1" ELSE "_2", t>>,
         title |-> "sample", summary |-> "sample", cover |-> "",
         category |-> category, publishedAt |-> t, likes |-> 0, url |-> "", source |-> ""]]

\* the records the handler works on, or the failure that sends it to the
\* catch block; f holds the upstream answers by upstream category
AllArticles(category, f) ==
    IF category = "news"
    THEN [ok |-> TRUE, articles |-> Dedup(SortByTime(Flat(f, 1)), {})]
    ELSE LET apiCategory == categoryMap(category)  \* the one call made
         IN  [ok |-> f[apiCategory].ok,
              articles |-> Tagged(f[apiCategory].articles, apiCategory)]

ListNewsFetched(category, page, pageSize, f, ok) ==
    \E all \in {AllArticles(category, f)} :
    \E store \in {UpsertAll(articleStore, all.articles, now)} :
    \E items \in {[i \in 1..Len(all.articles) |-> Item(all.articles[i], category, now)]} :
    \E filteredItems \in {Filter(items, store, category)} :
        /\ IF all.ok
           THEN /\ articleStore' = store
                /\ disk' = IF Len(items) > 0
                           THEN saveDB(ok, users, likesDB, articleStore', commentsDB)
                           ELSE disk
                /\ resp' = [op |-> "list", category |-> category, page |-> page,
                            pageSize |-> pageSize, fetched |-> f, at |-> now,
                            status |-> 200, degraded |-> FALSE,
                            items |-> Slice(filteredItems, page, pageSize),
                            totalResults |-> Len(filteredItems),
                            filtered |-> filteredItems,
                            upserted |-> all.articles,
                            saved |-> Saved(Len(items) > 0, ok)]
           ELSE /\ resp' = [op |-> "list", category |-> category, page |-> page,
                            pageSize |-> pageSize, fetched |-> f, at |-> now,
                            status |-> 200, degraded |-> TRUE,
                            items |-> Sample(category, now),
                            totalResults |-> 2,
                            filtered |-> Sample(category, now),
                            upserted |-> <<>>,
                            saved |-> "none"]
                /\ UNCHANGED <<articleStore, disk>>
        /\ UNCHANGED <<users, likesDB, commentsDB, now, browser, parity>>

\* the whole handler, no other request being served while it awaits upstream
ListNews(category, page, pageSize, f, ok) ==
    /\ ListNewsFetched(category, page, pageSize, f, ok)
    /\ UNCHANGED pending

(***************************************************************************)
(* GET /api/trending                                                       *)
(***************************************************************************)
\* the record stored at the first sighting of an id
FirstSighting(id, n) ==
    [id |-> id, title |-> n.title, summary |-> n.description, cover |-> n.urlToImage,
     publishedAt |-> n.publishedAt, url |-> n.url, source |-> n.source,
     categories |-> <<>>, primaryCategory |-> "", category |-> "tech"]

\* the map over data.articles: an unseen id is stored and the state saved at
\* once, each save succeeding or not on its own (oks[k] for the k-th record)
RECURSIVE StoreUnseen(_, _, _, _, _, _, _)
StoreUnseen(store, dsk, saved, as, k, t, oks) ==
    IF k > Len(as) THEN [store |-> store, disk |-> dsk, saved |-> saved]
    ELSE LET id == makeIdFromUrl(as[k].url, t)
         IN  IF id \in DOMAIN store
             THEN StoreUnseen(store, dsk, saved, as, k + 1, t, oks)
             ELSE LET st == Put(store, id, FirstSighting(id, as[k]))
                  IN  StoreUnseen(st,
                                  IF oks[k] THEN toSave(users, likesDB, st, commentsDB) ELSE dsk,
                                  Saved(TRUE, oks[k]),
                                  as, k + 1, t, oks)

TrendingSample ==
    [k \in 1..3 |-> [id |-> <<"local_tr", "", k>>, title |-> "sample", url |-> "", likes |-> 0]]

Trending(answer, oks) ==
    LET as == answer.articles
        r == StoreUnseen(articleStore, disk, "none", as, 1, now, oks)
    IN  /\ IF answer.ok
           THEN /\ articleStore' = r.store
                /\ disk' = r.disk
                /\ resp' = [op |-> "trending", fetched |-> [c \in {"technology"} |-> answer],
                            at |-> now, status |-> 200, degraded |-> FALSE,
                            saved |-> r.saved, oks |-> oks,
                            items |-> [i \in 1..Len(as) |->
                                [id |-> makeIdFromUrl(as[i].url, now), title |-> as[i].title,
                                 url |-> as[i].url,
                                 likes |-> LikeCount(likesDB, makeIdFromUrl(as[i].url, now))]]]
           ELSE /\ resp' = [op |-> "trending", fetched |-> [c \in {"technology"} |-> answer],
                            at |-> now, status |-> 200, degraded |-> TRUE,
                            saved |-> "none", oks |-> oks,
                            items |-> TrendingSample]
                /\ UNCHANGED <<articleStore, disk>>
        /\ UNCHANGED <<users, likesDB, commentsDB, now, pending, browser, parity>>

(***************************************************************************)
(* POST /api/register                                                      *)
(***************************************************************************)
Register(username, password, ok) ==
    IF username = NoUser \/ password = ""
       \/ \E i \in 1..Len(users) : users[i].username = username
    THEN /\ resp' = [op |-> "register", username |-> username, status |-> 400,
                     saved |-> "none"]
         /\ UNCHANGED <<users, likesDB, articleStore, commentsDB, disk, now, pending,
                        browser, parity>>
    ELSE /\ users' = Append(users, [username |-> username, password |-> password])
         /\ disk' = saveDB(ok, users', likesDB, articleStore, commentsDB)
         \* saveDB() is not guarded here either
         /\ resp' = [op |-> "register", username |-> username,
                     status |-> IF ok THEN 200 ELSE 500, saved |-> Saved(TRUE, ok)]
         /\ UNCHANGED <<likesDB, articleStore, commentsDB, now, pending, browser, parity>>

(***************************************************************************)
(* Startup: the load of data.json.  The statements of the try block run in *)
(* order and an exception leaves the assignments made so far.              *)
(***************************************************************************)
EmptyState ==
    [users |-> <<>>, likesDB |-> <<>>, articleStore |-> <<>>, commentsDB |-> <<>>]

\* the loop over Object.entries(parsed.likesDB): reading val.count of a null
\* entry throws, the entries before it are in db.likesDB already
RECURSIVE LoadLikes(_, _)
LoadLikes(entries, acc) ==
    IF entries = <<>> THEN [ok |-> TRUE, likesDB |-> acc]
    ELSE IF Head(entries).isNull THEN [ok |-> FALSE, likesDB |-> acc]
    ELSE LoadLikes(Tail(entries),
                   Put(acc, Head(entries).id,
                       [count |-> Head(entries).count,
                        users |-> Distinct(Head(entries).users)]))

LoadDBWithoutComments(file) ==
    IF ~file.exists THEN EmptyState
    ELSE IF ~file.parses THEN EmptyState
    ELSE [users |-> file.users, likesDB |-> LoadLikes(file.likesDB, <<>>).likesDB,
          articleStore |-> file.articleStore, commentsDB |-> <<>>]

LoadDB(file) ==
    IF ~file.exists THEN EmptyState
    ELSE IF ~file.parses THEN EmptyState      \* JSON.parse throws
    ELSE LET l == LoadLikes(file.likesDB, <<>>)
         IN  IF l.ok
             THEN [users |-> file.users, likesDB |-> l.likesDB,
                   articleStore |-> file.articleStore, commentsDB |-> file.commentsDB]
             ELSE [users |-> file.users, likesDB |-> l.likesDB,
                   articleStore |-> <<>>, commentsDB |-> <<>>]

\* no handler is suspended
NoRequest == [at |-> "idle"]

NoPending == [s \in 1..MaxInFlight |-> NoRequest]

\* the page as loaded: let state = {category: 'news', q: '', page: 1, busy: false,
\* eof: false}, an empty #feed, nothing requested
InitBrowser ==
    /\ state = [category |-> "news", q |-> "", page |-> 1, busy |-> FALSE, eof |-> FALSE]
    /\ feed = <<>>
    /\ fetches = <<>>
    /\ asked = 0

\* the server started on the file
InitFrom(file) ==
    /\ users = LoadDB(file).users
    /\ likesDB = LoadDB(file).likesDB
    /\ articleStore = LoadDB(file).articleStore
    /\ commentsDB = LoadDB(file).commentsDB
    /\ disk = file
    /\ now = 0
    /\ parity = [id \in EngagementIds |-> [u \in Usernames |-> 0]]
    /\ resp = NoResponse
    /\ pending = NoPending
    /\ InitBrowser

\* the client takes the response
Receive ==
    /\ ~Idle
    /\ resp' = NoResponse
    /\ UNCHANGED <<users, likesDB, articleStore, commentsDB, disk, now, pending, browser,
                   parity>>

\* time passes
Tick ==
    /\ now < MaxTime
    /\ now' = now + 1
    /\ UNCHANGED <<users, likesDB, articleStore, commentsDB, disk, parity, resp, pending,
                   browser>>

Init ==
    /\ users = <<>>
    /\ likesDB = <<>>
    /\ articleStore = <<>>
    /\ commentsDB = <<>>
    /\ disk = NoFile
    /\ now = 0
    /\ parity = [id \in EngagementIds |-> [u \in Usernames |-> 0]]
    /\ resp = NoResponse
    /\ pending = NoPending
    /\ InitBrowser

\* comment ids a client can name: those the stored comments have (a comment
\* without id matches no path parameter) and one that no comment has
KnownCommentIds(id) ==
    ({CommentsOf(commentsDB, id)[i].id : i \in 1..Len(CommentsOf(commentsDB, id))}
        \ {NoCommentId})
        \cup {Sha1Comment(id, "nobody", 0, <<>>)}

NextLikes ==
    \/ Receive
    \/ /\ Idle
       /\ \E id \in EngagementIds, username \in Usernames \cup {NoUser}, ok \in BOOLEAN :
             ArticleLike(id, username, ok)

SpecLikes == Init /\ [][NextLikes]_vars

(***************************************************************************)
(* The comments of one article: posting (through the comment box or        *)
(* directly) and listing.                                                  *)
(***************************************************************************)
CommentArticles == {Sha1Url("u1")}

NextComments ==
    \/ Tick
    \/ Receive
    \/ /\ Idle
       /\ \E id \in CommentArticles, username \in Usernames \cup {NoUser} :
             ListComments(id, username, TRUE)
    \/ /\ Idle
       /\ \E id \in CommentArticles, username \in Usernames \cup {NoUser},
             text \in Texts, ok \in BOOLEAN :
             PostComment(id, username, text, ok)
    \/ /\ Idle
       /\ \E id \in CommentArticles, currentUser \in Usernames \cup {NoUser},
             value \in Texts, ok \in BOOLEAN :
             SubmitComment(id, currentUser, value, ok)

SpecComments == Init /\ [][NextComments]_vars

(***************************************************************************)
(* The catalogue: list and trending requests against a changing upstream,  *)
(* every write to data.json succeeding.  Requests carry the server's       *)
(* default paging (page 1, pageSize 10).                                   *)
(***************************************************************************)
DefaultPage == 1
DefaultPageSize == 10

\* the category ids of /api/categories and one the server does not know
Categories == {"tech", "business", "world", "sports", "news", "health"}

\* the upstream answers a list request for `category` can get
UpstreamAnswers(category) ==
    IF category = "news" THEN FanOutAnswers
    ELSE {[c \in {categoryMap(category)} |-> a] : a \in Answers(categoryMap(category), MaxFeed)}

NextNews ==
    \/ Tick
    \/ Receive
    \/ /\ Idle
       /\ \E category \in Categories :
          \E f \in UpstreamAnswers(category) :
             ListNews(category, DefaultPage, DefaultPageSize, f, TRUE)
    \/ /\ Idle
       /\ \E answer \in Answers("technology", MaxFeed) :
             Trending(answer, [k \in 1..Len(answer.articles) |-> TRUE])

SpecNews == Init /\ [][NextNews]_vars

(***************************************************************************)
(* Paging: list requests for any page and page size.                       *)
(***************************************************************************)
NextPage ==
    \/ Receive
    \/ /\ Idle
       /\ \E category \in Categories, page \in 1..MaxPage, pageSize \in 1..MaxPageSize :
          \E f \in UpstreamAnswers(category) :
             ListNews(category, page, pageSize, f, TRUE)

SpecPage == Init /\ [][NextPage]_vars

(***************************************************************************)
(* A server started on the data.json of an earlier version: one comment    *)
(* stored without id and without likedBy, with a plain like count.         *)
(***************************************************************************)
LegacyLikes == 2

LegacyComment ==
    [id |-> NoCommentId, username |-> "alice", text |-> Rep(1), createdAt |-> -1,
     likedBy |-> <<>>, hasLikedBy |-> FALSE, likes |-> LegacyLikes]

LegacyFile ==
    [exists |-> TRUE, parses |-> TRUE, users |-> <<>>, likesDB |-> <<>>,
     articleStore |-> <<>>,
     commentsDB |-> [id \in CommentArticles |-> <<LegacyComment>>]]

\* texts of a short comment, an empty and a blank one
ShortTexts == {<<>>, Spaces(2), Rep(2)}

NextLegacy ==
    \/ Receive
    \/ /\ Idle
       /\ \E id \in CommentArticles, username \in Usernames \cup {NoUser} :
             ListComments(id, username, TRUE)
    \/ /\ Idle
       /\ \E id \in CommentArticles, username \in Usernames \cup {NoUser},
             text \in ShortTexts :
             PostComment(id, username, text, TRUE)
    \/ /\ Idle
       /\ \E id \in CommentArticles, username \in Usernames \cup {NoUser} :
          \E commentId \in KnownCommentIds(id) :
             CommentLike(id, commentId, username, TRUE)

SpecLegacy == InitFrom(LegacyFile) /\ [][NextLegacy]_vars

(***************************************************************************)
(* Engagement with one article: likes, comments and comment likes, every   *)
(* write to data.json succeeding.                                          *)
(***************************************************************************)
NextEngage ==
    \/ Receive
    \/ /\ Idle
       /\ \E id \in CommentArticles, username \in Usernames \cup {NoUser} :
             ArticleLike(id, username, TRUE)
    \/ /\ Idle
       /\ \E id \in CommentArticles, username \in Usernames \cup {NoUser} :
             ListComments(id, username, TRUE)
    \/ /\ Idle
       /\ \E id \in CommentArticles, username \in Usernames \cup {NoUser},
             text \in ShortTexts :
             PostComment(id, username, text, TRUE)
    \/ /\ Idle
       /\ \E id \in CommentArticles, username \in Usernames \cup {NoUser} :
          \E commentId \in KnownCommentIds(id) :
             CommentLike(id, commentId, username, TRUE)

SpecEngage == Init /\ [][NextEngage]_vars

(***************************************************************************)
(* Persistence: every mutating operation, by one user on one article, on a *)
(* server started on the earlier version's file, each write to data.json   *)
(* succeeding or failing.                                                  *)
(***************************************************************************)
NextPersist ==
    \/ Receive
    \/ /\ Idle
       /\ \E id \in CommentArticles, ok \in BOOLEAN :
             ArticleLike(id, "alice", ok)
    \/ /\ Idle
       /\ \E id \in CommentArticles, ok \in BOOLEAN :
             ListComments(id, NoUser, ok)
    \/ /\ Idle
       /\ \E id \in CommentArticles, ok \in BOOLEAN :
             PostComment(id, "alice", Rep(2), ok)
    \/ /\ Idle
       /\ \E id \in CommentArticles, ok \in BOOLEAN :
          \E commentId \in KnownCommentIds(id) :
             CommentLike(id, commentId, "alice", ok)
    \/ /\ Idle
       /\ \E ok \in BOOLEAN :
             Register("alice", "pw", ok)
    \/ /\ Idle
       /\ \E f \in {[c \in {"business"} |-> a] :
                        a \in {Failed, [ok |-> TRUE, articles |-> <<RB>>]}},
             ok \in BOOLEAN :
             ListNews("business", DefaultPage, DefaultPageSize, f, ok)
    \/ /\ Idle
       /\ \E answer \in {Failed, [ok |-> TRUE, articles |-> <<RA, RD>>]},
             oks \in [1..2 -> BOOLEAN] :
             Trending(answer, oks)

SpecPersist == InitFrom(LegacyFile) /\ [][NextPersist]_vars

(***************************************************************************)
(* Startup on any of a set of files, then likes and registrations, every   *)
(* write to data.json succeeding.                                          *)
(***************************************************************************)
StoredUser == [username |-> "bob", password |-> "pw"]

StoredArticle == Merged(NoArticle, Sha1Url("u1"), Tagged(<<RA>>, "technology")[1])

StoredComment ==
    [id |-> Sha1Comment(Sha1Url("u1"), "bob", -1, Rep(1)), username |-> "bob",
     text |-> Rep(1), createdAt |-> -1, likedBy |-> <<>>, hasLikedBy |-> TRUE, likes |-> 0]

\* a file as saveDB writes it
GoodFile ==
    [exists |-> TRUE, parses |-> TRUE,
     users |-> <<StoredUser>>,
     likesDB |-> <<[id |-> Sha1Url("u1"), isNull |-> FALSE, count |-> 1, users |-> <<"bob">>]>>,
     articleStore |-> [id \in {Sha1Url("u1")} |-> StoredArticle],
     commentsDB |-> [id \in {Sha1Url("u1")} |-> <<StoredComment>>]]

\* the same file with a like record whose count has drifted from its users
\* and whose users array names a user twice
DriftedFile ==
    [GoodFile EXCEPT
        !.likesDB = <<[id |-> Sha1Url("u1"), isNull |-> FALSE, count |-> 3,
                       users |-> <<"bob", "bob">>]>>]

\* not JSON: a truncated or hand-damaged file
UnparseableFile == [exists |-> TRUE, parses |-> FALSE]

\* the same file with a second likesDB entry that is null
NullLikeFile ==
    [GoodFile EXCEPT
        !.likesDB = Append(@, [id |-> <<"local_tr", "", 1>>, isNull |-> TRUE,
                               count |-> 0, users |-> <<>>])]

Files == {NoFile, UnparseableFile, NullLikeFile, GoodFile, DriftedFile, LegacyFile}

InitLoad == \E file \in Files : InitFrom(file)

NextLoad ==
    \/ Receive
    \/ /\ Idle
       /\ \E id \in EngagementIds, username \in Usernames \cup {NoUser} :
             ArticleLike(id, username, TRUE)
    \/ /\ Idle
       /\ \E username \in Usernames \cup {NoUser}, password \in {"pw", ""} :
             Register(username, password, TRUE)

SpecLoad == InitLoad /\ [][NextLoad]_vars

(***************************************************************************)
(* Restarts: the process stops between two requests and starts again on    *)
(* the data.json it finds.  resp records the startup until the next step.  *)
(***************************************************************************)
Started == [op |-> "started", status |-> 0, saved |-> "none"]

Restart ==
    /\ users' = LoadDB(disk).users
    /\ likesDB' = LoadDB(disk).likesDB
    /\ articleStore' = LoadDB(disk).articleStore
    /\ commentsDB' = LoadDB(disk).commentsDB
    /\ resp' = Started
    /\ pending' = NoPending
    /\ UNCHANGED <<disk, now, browser, parity>>

NextRestart ==
    \/ Receive
    \/ /\ Idle
       /\ Restart
    \/ /\ Idle
       /\ \E id \in CommentArticles, username \in {"alice", "bob"}, ok \in BOOLEAN :
             ArticleLike(id, username, ok)
    \/ /\ Idle
       /\ \E id \in CommentArticles :
             PostComment(id, "alice", Rep(2), TRUE)
    \/ /\ Idle
       /\ \E id \in CommentArticles, username \in {"bob"} :
          \E commentId \in KnownCommentIds(id) :
             CommentLike(id, commentId, username, TRUE)
    \/ /\ Idle
       /\ Register("alice", "pw", TRUE)
    \/ /\ Idle
       /\ \E f \in {[c \in {"business"} |-> a] :
                        a \in {Failed, [ok |-> TRUE, articles |-> <<RB>>]}} :
             ListNews("business", DefaultPage, DefaultPageSize, f, TRUE)

SpecRestart == Init /\ [][NextRestart]_vars

(***************************************************************************)
(* Requests served at the same time.  Node runs one handler at a time and  *)
(* switches only at an await: the like handler has none, the list handler  *)
(* has one, the upstream fetch, before which it has read the query string  *)
(* only.  A list request is a start step, that suspends the handler, and a *)
(* finish step that runs the rest of it on the upstream answer.            *)
(***************************************************************************)
StartList(s, category, page, pageSize) ==
    /\ pending[s] = NoRequest
    /\ pending' = [pending EXCEPT ![s] = [at |-> "fetch", category |-> category,
                                          page |-> page, pageSize |-> pageSize]]
    /\ UNCHANGED <<users, likesDB, articleStore, commentsDB, disk, now, parity, resp,
                   browser>>

\* the handler's record stays as history: what it has upserted and whether
\* another handler was suspended while it ran
FinishList(s, f, ok) ==
    /\ pending[s].at = "fetch"
    /\ ListNewsFetched(pending[s].category, pending[s].page, pending[s].pageSize, f, ok)
    /\ pending' = [pending EXCEPT ![s] =
                      [at |-> "done", category |-> pending[s].category,
                       upserted |-> resp'.upserted, when |-> now,
                       overlapped |-> \E t \in DOMAIN pending :
                                         t # s /\ pending[t].at = "fetch"]]

NextConcurrent ==
    \/ Receive
    \/ \E s \in DOMAIN pending, category \in {"tech", "business"} :
          StartList(s, category, DefaultPage, DefaultPageSize)
    \/ /\ Idle
       /\ \E s \in {t \in DOMAIN pending : pending[t].at = "fetch"} :
          \E f \in {[c \in {categoryMap(pending[s].category)} |-> a] :
                       a \in {[ok |-> TRUE, articles |-> <<r>>] :
                                 r \in Headlines(categoryMap(pending[s].category))}} :
             FinishList(s, f, TRUE)
    \/ /\ Idle
       /\ \E username \in Usernames :
             ArticleLike(Sha1Url("u1"), username, TRUE)

SpecConcurrent == Init /\ [][NextConcurrent]_vars

(***************************************************************************)
(* The page in the browser: state, #feed and its /api/news requests.  An   *)
(* async function runs to its await in one step and resumes in another     *)
(* when the request is answered.  The cards of one answer are kept as one  *)
(* run: the request they answer and their number.                          *)
(***************************************************************************)
ClientPageSize == 10

server == <<users, likesDB, articleStore, commentsDB, disk, now, parity, resp, pending>>

\* loadMore() up to `await fetchJSON`: nothing happens while busy or at the
\* end of the feed, else the request for state.page of the current
\* category and query leaves
loadMore(st, fs, a) ==
    IF st.busy \/ st.eof
    THEN [state |-> st, fetches |-> fs, asked |-> a]
    ELSE [state |-> [st EXCEPT !.busy = TRUE],
          fetches |-> Append(fs, [category |-> st.category, q |-> st.q, page |-> st.page]),
          asked |-> st.page]

\* refresh(): empties #feed, resets the paging and calls loadMore()
refresh(st, fs) ==
    [feed |-> <<>>,
     state |-> loadMore([st EXCEPT !.page = 1, !.eof = FALSE], fs, 0).state,
     fetches |-> loadMore([st EXCEPT !.page = 1, !.eof = FALSE], fs, 0).fetches,
     asked |-> loadMore([st EXCEPT !.page = 1, !.eof = FALSE], fs, 0).asked]

\* a tab or the brand is clicked
switchCategory(cat) ==
    /\ \E r \in {refresh([state EXCEPT !.category = cat, !.page = 1, !.eof = FALSE],
                          fetches)} :
          /\ feed' = r.feed
          /\ state' = r.state
          /\ fetches' = r.fetches
          /\ asked' = r.asked
    /\ UNCHANGED server

\* searchForm submit
Search(q) ==
    /\ \E r \in {refresh([state EXCEPT !.q = q], fetches)} :
          /\ feed' = r.feed
          /\ state' = r.state
          /\ fetches' = r.fetches
          /\ asked' = r.asked
    /\ UNCHANGED server

\* the window is scrolled near the bottom
Scroll ==
    /\ state.page <= MaxPage
    /\ state' = loadMore(state, fetches, asked).state
    /\ fetches' = loadMore(state, fetches, asked).fetches
    /\ asked' = loadMore(state, fetches, asked).asked
    /\ UNCHANGED <<feed, server>>

\* loadMore() resumes with the answer to its request: n items
Resume(i, n) ==
    /\ i \in 1..Len(fetches)
    /\ feed' = IF n > 0 THEN Append(feed, [category |-> fetches[i].category,
                                           q |-> fetches[i].q, page |-> fetches[i].page,
                                           cards |-> n])
               ELSE feed
    /\ state' = [state EXCEPT !.page = IF n > 0 THEN @ + 1 ELSE @,
                              !.eof = n < ClientPageSize,
                              !.busy = FALSE]
    /\ fetches' = [k \in 1..(Len(fetches) - 1) |->
                      IF k < i THEN fetches[k] ELSE fetches[k + 1]]
    /\ UNCHANGED <<asked, server>>

\* loadMore() resumes in its catch block: the request failed
ResumeFailed(i) ==
    /\ i \in 1..Len(fetches)
    /\ state' = [state EXCEPT !.eof = TRUE, !.busy = FALSE]
    /\ fetches' = [k \in 1..(Len(fetches) - 1) |->
                      IF k < i THEN fetches[k] ELSE fetches[k + 1]]
    /\ UNCHANGED <<feed, asked, server>>

ClientCategories == {"news", "tech"}
Queries == {"", "ai"}
ItemCounts == {0, 1, ClientPageSize}

NextBrowser ==
    \/ \E cat \in ClientCategories : switchCategory(cat)
    \/ \E q \in Queries : Search(q)
    \/ Scroll
    \/ \E i \in 1..Len(fetches) : ResumeFailed(i)
    \/ \E i \in 1..Len(fetches), n \in ItemCounts : Resume(i, n)

SpecBrowser == Init /\ [][NextBrowser]_vars

\* every request is answered or fails in the end; the user owes no click
Settled ==
    \/ \E i \in 1..Len(fetches) : ResumeFailed(i)
    \/ \E i \in 1..Len(fetches), n \in ItemCounts : Resume(i, n)

SpecBrowserFair == Init /\ [][NextBrowser]_vars /\ WF_vars(Settled)

(***************************************************************************)
(* The whole server.                                                       *)
(***************************************************************************)
Next ==
    \/ Tick
    \/ Receive
    \/ /\ Idle
       /\ \E id \in EngagementIds, username \in Usernames \cup {NoUser}, ok \in BOOLEAN :
             ArticleLike(id, username, ok)
    \/ /\ Idle
       /\ \E id \in EngagementIds, username \in Usernames \cup {NoUser}, ok \in BOOLEAN :
             ListComments(id, username, ok)
    \/ /\ Idle
       /\ \E id \in EngagementIds, username \in Usernames \cup {NoUser},
             text \in Texts, ok \in BOOLEAN :
             PostComment(id, username, text, ok)
    \/ /\ Idle
       /\ \E id \in EngagementIds, currentUser \in Usernames \cup {NoUser},
             value \in Texts, ok \in BOOLEAN :
             SubmitComment(id, currentUser, value, ok)
    \/ /\ Idle
       /\ \E id \in EngagementIds, username \in Usernames \cup {NoUser}, ok \in BOOLEAN :
          \E commentId \in KnownCommentIds(id) :
             CommentLike(id, commentId, username, ok)
    \/ /\ Idle
       /\ \E category \in Categories, page \in 1..MaxPage, pageSize \in 1..MaxPageSize,
             ok \in BOOLEAN :
          \E f \in UpstreamAnswers(category) :
             ListNews(category, page, pageSize, f, ok)
    \/ /\ Idle
       /\ \E answer \in Answers("technology", MaxFeed), oks \in [1..MaxFeed -> BOOLEAN] :
             Trending(answer, oks)
    \/ /\ Idle
       /\ \E username \in Usernames \cup {NoUser}, password \in {"pw", ""}, ok \in BOOLEAN :
             Register(username, password, ok)

Spec == Init /\ [][Next]_vars

(***************************************************************************)
(* Claims about the engagement store.                                      *)
(***************************************************************************)

\* C1: for every article id that has a like record, the record's count
\* equals the number of usernames in its like-set, after any sequence of
\* like toggles by any users on any ids from the empty store.
C1_CountEqualsLikeSetSize ==
    \A id \in DOMAIN likesDB :
        likesDB[id].count = Cardinality(Range(likesDB[id].users))

\* both users have liked the same article
C1_Witness ==
    \E id \in DOMAIN likesDB : likesDB[id].count = 2

LikedNow(id) == {u \in Usernames : parity[id][u] = 1}

\* C2: a user who toggled an odd number of times is in the like-set and
\* counted once, a user who toggled an even number of times is not, whatever
\* the other users did in between; the answer of each toggle says which.
C2_ToggleAlternates ==
    /\ \A id \in EngagementIds :
          /\ Range(LikeRecordOf(likesDB, id).users) = LikedNow(id)
          /\ LikeCount(likesDB, id) = Cardinality(LikedNow(id))
    /\ (resp.op = "like" /\ resp.status = 200) =>
          /\ resp.liked = (resp.username \in LikedNow(resp.id))
          /\ resp.likes = Cardinality(LikedNow(resp.id))

\* a user has just taken back a like (a second toggle) while another user's
\* like on the same article stands
C2_Witness ==
    /\ resp.op = "like"
    /\ resp.status = 200
    /\ ~resp.liked
    /\ LikedNow(resp.id) = Usernames \ {resp.username}

\* C3: a comment of exactly 300 characters after trimming is accepted, one of
\* 301 or more is rejected with a validation error and not stored.
C3_CommentLengthBoundary ==
    /\ \A id \in DOMAIN commentsDB : \A i \in 1..Len(commentsDB[id]) :
          Length(commentsDB[id][i].text) <= MaxCommentLen
    /\ (resp.op = "comment" /\ resp.username # NoUser) =>
          /\ Length(Trim(resp.text)) = MaxCommentLen => resp.status = 200
          /\ Length(Trim(resp.text)) > MaxCommentLen => resp.status = 400

\* C4: the comment listing is newest first: it is the stored (creation)
\* order reversed.
C4_ListNewestFirst ==
    resp.op = "listComments" =>
        resp.items = Reverse(Out(CommentsOf(commentsDB, resp.id), resp.username))

(***************************************************************************)
(* Claims about the list operation.                                        *)
(***************************************************************************)

\* C5: whatever the category, the aggregate one included, a list request
\* all of whose upstream calls fail is answered with a non-empty set of
\* placeholder items.
C5_AllFailedDegrades ==
    (resp.op = "list" /\ \A c \in DOMAIN resp.fetched : ~resp.fetched[c].ok) =>
        /\ resp.status = 200
        /\ resp.degraded
        /\ Len(resp.items) > 0

\* the items of page p of size n of F, counted from the definition
PageOf(F, p, n) ==
    LET from == (p - 1) * n
        left == IF Len(F) > from THEN Len(F) - from ELSE 0
    IN  [i \in 1..(IF left < n THEN left ELSE n) |-> F[from + i]]

RECURSIVE Pages(_, _, _)
Pages(F, n, last) == IF last = 0 THEN <<>> ELSE Pages(F, n, last - 1) \o Slice(F, last, n)

\* C6: when upstream answers, page p of size s is F[(p-1)s .. (p-1)s+s)
\* clipped to F, totalResults is |F| on every page, a page beyond the end is
\* empty, and the pages 1..ceil(|F|/s) concatenated are F.
C6_Pagination ==
    (resp.op = "list" /\ ~resp.degraded) =>
        LET F == resp.filtered
            p == resp.page
            n == resp.pageSize
        IN  /\ resp.status = 200
            /\ resp.items = PageOf(F, p, n)
            /\ resp.totalResults = Len(F)
            /\ (p - 1) * n >= Len(F) => resp.items = <<>>
            /\ Pages(F, n, (Len(F) + n - 1) \div n) = F

\* the second page of size 1 of two items
C6_Witness ==
    /\ resp.op = "list"
    /\ ~resp.degraded
    /\ Len(resp.filtered) = 2
    /\ resp.page = 2
    /\ resp.pageSize = 1
    /\ resp.items = <<resp.filtered[2]>>

FetchedRecords(r) ==
    UNION {Range(r.fetched[c].articles) : c \in DOMAIN r.fetched}

\* C7: the full aggregate result holds every url upstream returned exactly
\* once, however many categories returned it; no two items share a url.
C7_AggregateDedup ==
    (resp.op = "list" /\ resp.category = "news") =>
        /\ NoDuplicates([i \in 1..Len(resp.filtered) |-> resp.filtered[i].url])
        /\ \A u \in {n.url : n \in FetchedRecords(resp)} \ {""} :
              Cardinality({i \in 1..Len(resp.filtered) : resp.filtered[i].url = u}) = 1

\* technology and business both returned the url u1
C7_Witness ==
    /\ resp.op = "list"
    /\ resp.category = "news"
    /\ RA \in Range(resp.fetched["technology"].articles)
    /\ RB \in Range(resp.fetched["business"].articles)
    /\ Len(resp.filtered) = 1

\* C8: the full aggregate result is ordered by published timestamp, latest
\* first, a record without timestamp counting as the epoch and so coming
\* after every record that has one.
C8_AggregateSorted ==
    (resp.op = "list" /\ resp.category = "news") =>
        \A i, j \in 1..Len(resp.filtered) :
            i < j =>
                /\ (IF resp.filtered[i].publishedAt = NoTime THEN 0
                    ELSE resp.filtered[i].publishedAt)
                     >= (IF resp.filtered[j].publishedAt = NoTime THEN 0
                         ELSE resp.filtered[j].publishedAt)
                /\ resp.filtered[i].publishedAt = NoTime
                     => resp.filtered[j].publishedAt = NoTime

\* business returned a record without timestamp, general a dated one, and
\* the dated one comes first
C8_Witness ==
    /\ resp.op = "list"
    /\ resp.category = "news"
    /\ Len(resp.filtered) = 2
    /\ resp.filtered[1].publishedAt = 3
    /\ resp.filtered[2].publishedAt = NoTime

\* C9: of a list for a concrete category c, every returned item's catalogue
\* record has c among its categories, and every fetched record whose
\* catalogue record has c among its categories is in the filtered set.
C9_CategoryFilter ==
    (resp.op = "list" /\ resp.category # "news" /\ ~resp.degraded) =>
        /\ \A i \in 1..Len(resp.items) :
              /\ resp.items[i].id \in DOMAIN articleStore
              /\ Includes(articleStore[resp.items[i].id].categories, resp.category)
        /\ resp.items = resp.filtered
        /\ \A n \in FetchedRecords(resp) :
              LET id == makeIdFromUrl(n.url, resp.at)
              IN  (id \in DOMAIN articleStore
                     /\ Includes(articleStore[id].categories, resp.category)) =>
                  \E i \in 1..Len(resp.filtered) :
                      /\ resp.filtered[i].id = id
                      /\ resp.filtered[i].title = n.title

\* a business listing returns an article first sighted under technology
C9_Witness ==
    /\ resp.op = "list"
    /\ resp.category = "business"
    /\ Len(resp.items) = 1
    /\ articleStore[resp.items[1].id].categories = <<"tech", "news", "business">>

\* the values of a field the records of the last request carry
IncomingStr(r, field) ==
    IF r.op \in {"list", "trending"}
    THEN {CASE field = "title" -> n.title
            [] field = "summary" -> n.description
            [] field = "cover" -> n.urlToImage
            [] field = "url" -> n.url
            [] field = "source" -> n.source : n \in FetchedRecords(r)}
    ELSE {}

IncomingTime(r) ==
    IF r.op \in {"list", "trending"} THEN {n.publishedAt : n \in FetchedRecords(r)} ELSE {}

\* C10: a catalogue field (title, summary, cover, publishedAt, url, source)
\* once populated stays populated through every later sighting: it keeps its
\* value or takes a populated incoming one.
C10_PopulatedFieldsStay ==
    [][\A id \in DOMAIN articleStore :
          /\ id \in DOMAIN articleStore'
          /\ \A field \in {"title", "summary", "cover", "url", "source"} :
                articleStore[id][field] # "" =>
                    /\ articleStore'[id][field] # ""
                    /\ \/ articleStore'[id][field] = articleStore[id][field]
                       \/ articleStore'[id][field] \in IncomingStr(resp', field)
          /\ articleStore[id].publishedAt # NoTime =>
                /\ articleStore'[id].publishedAt # NoTime
                /\ \/ articleStore'[id].publishedAt = articleStore[id].publishedAt
                   \/ articleStore'[id].publishedAt \in IncomingTime(resp')]_vars

\* the story stored in full has just been sighted again with its optional
\* fields missing, and kept them
C10_Witness ==
    /\ resp.op = "list"
    /\ resp.category = "business"
    /\ resp.fetched["business"].articles = <<RB>>
    /\ Sha1Url("u1") \in DOMAIN articleStore
    /\ articleStore[Sha1Url("u1")].summary = "D1"
    /\ articleStore[Sha1Url("u1")].publishedAt = 2

(***************************************************************************)
(* Claims about the catalogue's upsert.                                    *)
(***************************************************************************)

\* the records the list request just served has upserted, in order
Upserted(r) == r.upserted

\* C11: upserting again the records a list request has just upserted, same
\* fields and same sighted category, leaves every catalogue record (fields,
\* categories, primaryCategory) as the first upsert left it.
C11_UpsertIdempotent ==
    (resp.op = "list" /\ ~resp.degraded) =>
        /\ UpsertAll(articleStore, Upserted(resp), resp.at) = articleStore
        /\ \A i \in 1..Len(Upserted(resp)) :
              LET id == makeIdFromUrl(Upserted(resp)[i].url, resp.at)
              IN  /\ id \in DOMAIN articleStore
                  /\ Merged(articleStore[id], id, Upserted(resp)[i]) = articleStore[id]

\* a story first sighted under technology has been upserted twice by one
\* business listing that carried it twice
C11_Witness ==
    /\ resp.op = "list"
    /\ resp.category = "business"
    /\ resp.fetched["business"].articles = <<RB, RB>>
    /\ articleStore[Sha1Url("u1")].categories = <<"tech", "news", "business">>

UpsertedUnder(r, id) ==
    IF r.op = "list" /\ ~r.degraded
    THEN {reverseMap(Upserted(r)[i].apiCategory) :
             i \in {k \in 1..Len(Upserted(r)) : makeIdFromUrl(Upserted(r)[k].url, r.at) = id}}
    ELSE {}

\* the categories under which the request r has sighted the record id: those
\* of a list request, "tech" for the trending panel
SightedUnder(r, id) ==
    IF r.op = "trending" /\ ~r.degraded
    THEN {"tech" : n \in {m \in FetchedRecords(r) : makeIdFromUrl(m.url, r.at) = id}}
    ELSE UpsertedUnder(r, id)

\* C13: every catalogue record, created by list or by trending, has a
\* non-empty membership that contains "news", and a record created by its
\* first sighting under c has membership exactly {c, "news"}.
C13_MembershipHasNews ==
    [][\A id \in DOMAIN articleStore' :
          /\ articleStore'[id].categories # <<>>
          /\ Includes(articleStore'[id].categories, "news")
          /\ id \notin DOMAIN articleStore =>
                \E c \in SightedUnder(resp', id) :
                    Range(articleStore'[id].categories) = {c, "news"}]_vars

LegacyId == Sha1Comment(Sha1Url("u1"), "alice", -1, Rep(1))

\* C15: the legacy comment (no id, no liked-by set, plain count LegacyLikes),
\* once listed, has the same id on every listing and a liked-by set, and the
\* count reported by a listing and by a comment-like toggle is LegacyLikes
\* plus the number of users in the liked-by set.
C15_LegacyBaselineKept ==
    /\ LET c == commentsDB[Sha1Url("u1")][1]
       IN  c.id # NoCommentId => (c.id = LegacyId /\ c.hasLikedBy)
    /\ resp.op = "listComments" =>
          /\ resp.items[1].id = LegacyId
          /\ commentsDB[Sha1Url("u1")][1].id = LegacyId
          /\ resp.items[1].likes = LegacyLikes + Len(resp.items[1].likedBy)
    /\ (resp.op = "commentLike" /\ resp.status = 200 /\ resp.commentId = LegacyId) =>
          resp.likes = LegacyLikes + Len(commentsDB[Sha1Url("u1")][1].likedBy)

\* the position of the comment a comment-like request for commentId acts on
\* (Array.prototype.find: the first with that id), 0 if there is none
Found(items, commentId) ==
    IF \E i \in 1..Len(items) : items[i].id = commentId
    THEN CHOOSE i \in 1..Len(items) :
            /\ items[i].id = commentId
            /\ \A j \in 1..(i - 1) : items[j].id # commentId
    ELSE 0

\* C16: every stored comment's like count, stored and as listed, is the size
\* of its liked-by set, which names no user twice.  A comment-like toggle
\* answers liked = (the user was not in the set), flips that user's
\* membership in that comment's set and changes nothing else; no other step
\* changes a stored comment.  So one user's successive toggles on one
\* comment alternate liked = true / liked = false.
C16_CommentLikes ==
    [][/\ \A id \in DOMAIN commentsDB' : \A i \in 1..Len(commentsDB'[id]) :
             /\ commentsDB'[id][i].likes = Cardinality(Range(commentsDB'[id][i].likedBy))
             /\ CommentView(commentsDB'[id][i], NoUser).likes = commentsDB'[id][i].likes
             /\ NoDuplicates(commentsDB'[id][i].likedBy)
       /\ \A id \in DOMAIN commentsDB : \A i \in 1..Len(commentsDB[id]) :
             LET c == commentsDB[id][i]
                 d == commentsDB'[id][i]
             IN  IF /\ Idle /\ resp'.op = "commentLike" /\ resp'.status = 200
                    /\ resp'.id = id /\ Found(commentsDB[id], resp'.commentId) = i
                 THEN /\ resp'.liked = ~Includes(c.likedBy, resp'.username)
                      /\ Range(d.likedBy) =
                            (IF resp'.liked THEN Range(c.likedBy) \cup {resp'.username}
                             ELSE Range(c.likedBy) \ {resp'.username})
                      /\ resp'.likes = Cardinality(Range(d.likedBy))
                      /\ d = [c EXCEPT !.likedBy = d.likedBy, !.likes = d.likes]
                 ELSE d = c]_vars

\* a user has just taken back the like on a comment that another user still
\* likes
C16_Witness ==
    /\ resp.op = "commentLike"
    /\ resp.status = 200
    /\ ~resp.liked
    /\ resp.likes = 1
    /\ \E i \in 1..Len(commentsDB[resp.id]) :
          /\ commentsDB[resp.id][i].id = resp.commentId
          /\ commentsDB[resp.id][i].likedBy = <<"bob">>
          /\ resp.username = "alice"

\* the text has no character other than blanks
Blank(t) == \A i \in 1..Len(t) : t[i][1] = " "

\* C17: a rejected engagement request changes neither users, like records,
\* catalogue nor comments (nor data.json), and its status tells why: 401 for
\* a like, comment or comment-like without username, 400 for a comment whose
\* text is empty after trimming, 404 for a comment-like naming a comment the
\* article does not have.
C17_RejectedLeavesState ==
    [][Idle =>
        /\ resp'.status \in {400, 401, 404} =>
              UNCHANGED <<users, likesDB, articleStore, commentsDB, disk>>
        /\ resp'.op \in {"like", "comment", "commentLike"} =>
              (resp'.status = 401) = (resp'.username = NoUser)
        /\ resp'.op = "like" => resp'.status \in {200, 401}
        /\ resp'.op = "comment" =>
              /\ resp'.status \in {200, 400, 401}
              /\ (resp'.status = 400) =
                    (resp'.username # NoUser /\ Blank(resp'.text))
        /\ resp'.op = "commentLike" =>
              /\ resp'.status \in {200, 401, 404}
              /\ (resp'.status = 404) =
                    (resp'.username # NoUser
                       /\ Found(CommentsOf(commentsDB, resp'.id), resp'.commentId) = 0)]_vars

\* a comment-like for a comment the article does not have has been rejected
\* while the article has comments and likes
C17_Witness ==
    /\ resp.op = "commentLike"
    /\ resp.status = 404
    /\ Len(CommentsOf(commentsDB, resp.id)) = 2
    /\ LikeCount(likesDB, resp.id) = 1

(***************************************************************************)
(* Claims about data.json.                                                 *)
(***************************************************************************)

\* C18: a request whose write to data.json fails still gets its normal
\* success answer, whichever mutating operation it is.
C18_FlushFailureSwallowed ==
    resp.saved = "failed" => resp.status = 200

\* data.json holds what the memory holds
InSync ==
    /\ disk.exists
    /\ disk.parses
    /\ disk.users = users
    /\ Len(disk.likesDB) = Cardinality(DOMAIN likesDB)
    /\ \A id \in DOMAIN likesDB :
          \E i \in 1..Len(disk.likesDB) :
              /\ disk.likesDB[i].id = id
              /\ ~disk.likesDB[i].isNull
              /\ disk.likesDB[i].count = likesDB[id].count
              /\ disk.likesDB[i].users = likesDB[id].users
    /\ disk.articleStore = articleStore
    /\ disk.commentsDB = commentsDB

\* C19: when a mutating operation (like, comment, comment like, legacy
\* upgrade, register, list, trending) has completed and its last write
\* succeeded, data.json equals the memory; whatever writes failed before,
\* the first write that succeeds makes them equal again.
C19_WriteThrough ==
    resp.saved = "ok" => InSync

\* a trending request stored two new articles: the write after the first
\* failed, the write after the second succeeded, and data.json is whole
C19_Witness ==
    /\ resp.op = "trending"
    /\ ~resp.degraded
    /\ resp.oks = <<FALSE, TRUE>>
    /\ resp.saved = "ok"
    /\ {resp.items[1].id, resp.items[2].id} \subseteq DOMAIN disk.articleStore
    /\ Len(disk.likesDB) = 1
    /\ users # <<>>

\* data.json is missing, is not JSON, or has a null likesDB entry
Unusable(file) ==
    \/ ~file.exists
    \/ ~file.parses
    \/ \E i \in 1..Len(file.likesDB) : file.likesDB[i].isNull

\* C20: a server started on a missing or corrupt data.json (not JSON, or
\* JSON with a malformed section such as a null like record) runs with the
\* empty state: no users, like records, articles or comments are loaded.
\* While every write succeeds the file stays unusable only until the first
\* mutation, so the memory beside an unusable file is the loaded one.
C20_CorruptLoadsEmpty ==
    Unusable(disk) =>
        /\ users = <<>>
        /\ likesDB = <<>>
        /\ articleStore = <<>>
        /\ commentsDB = <<>>

(***************************************************************************)
(* Claims about the load of data.json.                                     *)
(***************************************************************************)

\* the memory
Memory ==
    [users |-> users, likesDB |-> likesDB, articleStore |-> articleStore,
     commentsDB |-> commentsDB]

C22_CountReconciledOnLoad ==
    \A id \in DOMAIN likesDB :
        /\ NoDuplicates(likesDB[id].users)
        /\ likesDB[id].count = Len(likesDB[id].users)

(***************************************************************************)
(* Claims about the aggregate request.                                     *)
(***************************************************************************)


\* the urls the categories that answered returned
SucceededUrls(r) ==
    {n.url : n \in UNION {Range(r.fetched[c].articles) :
                             c \in {d \in DOMAIN r.fetched : r.fetched[d].ok}}} \ {""}

PartialFailure(r) ==
    /\ r.op = "list"
    /\ r.category = "news"
    /\ \E c \in DOMAIN r.fetched : ~r.fetched[c].ok
    /\ \E c \in DOMAIN r.fetched : r.fetched[c].ok

\* C23: an aggregate request of which some upstream calls fail and at least
\* one answers is answered 200 without the sample items; its full result
\* holds each url of the categories that answered once, latest first, and
\* nothing else, and only those urls are written to the catalogue.
C23_PartialFailure ==
    PartialFailure(resp) =>
        /\ resp.status = 200
        /\ ~resp.degraded
        /\ resp.totalResults = Cardinality(SucceededUrls(resp))
        /\ {resp.filtered[i].url : i \in 1..Len(resp.filtered)} = SucceededUrls(resp)
        /\ Len(resp.filtered) = Cardinality(SucceededUrls(resp))
        /\ \A i \in 1..Len(resp.filtered) :
              /\ resp.filtered[i].id = Sha1Url(resp.filtered[i].url)
              /\ \A j \in 1..Len(resp.filtered) :
                    i < j => GetTime(resp.filtered[i]) >= GetTime(resp.filtered[j])
        /\ {resp.upserted[i].url : i \in 1..Len(resp.upserted)} = SucceededUrls(resp)
        /\ \A i \in 1..Len(resp.upserted) :
              /\ resp.fetched[resp.upserted[i].apiCategory].ok
              /\ Sha1Url(resp.upserted[i].url) \in DOMAIN articleStore

\* technology failed, business and general answered one record each
C23_Witness ==
    /\ PartialFailure(resp)
    /\ ~resp.fetched["technology"].ok
    /\ resp.fetched["business"].articles = <<RB>>
    /\ resp.fetched["general"].articles = <<RC>>
    /\ Len(resp.filtered) = 2
    /\ Sha1Url("u1") \in DOMAIN articleStore

\* C24: after an aggregate request every record an upstream category
\* returned has a catalogue entry whose membership holds that category: a
\* url returned by two categories has both, and a record without url has an
\* entry too.
C24_EveryRecordUpserted ==
    (resp.op = "list" /\ resp.category = "news") =>
        \A c \in DOMAIN resp.fetched :
            \A n \in Range(resp.fetched[c].articles) :
                /\ makeIdFromUrl(n.url, resp.at) \in DOMAIN articleStore
                /\ Includes(articleStore[makeIdFromUrl(n.url, resp.at)].categories,
                            reverseMap(c))

(***************************************************************************)
(* Claims about requests served at the same time.                          *)
(***************************************************************************)

\* C25: whatever the order in which handlers start, suspend and finish, no
\* update is lost: the like-set of an article is the set of users who have
\* toggled it an odd number of times and the count its size, and every
\* record a finished list handler has upserted has that handler's category
\* in its membership.
C25_NoLostUpdate ==
    /\ \A id \in DOMAIN likesDB :
          /\ \A u \in Usernames : Includes(likesDB[id].users, u) <=> parity[id][u] = 1
          /\ likesDB[id].count = Cardinality({u \in Usernames : parity[id][u] = 1})
    /\ \A s \in DOMAIN pending :
          pending[s].at = "done" =>
              \A i \in 1..Len(pending[s].upserted) :
                 LET id == makeIdFromUrl(pending[s].upserted[i].url, pending[s].when)
                 IN  /\ id \in DOMAIN articleStore
                     /\ Includes(articleStore[id].categories, pending[s].category)
                     /\ Includes(articleStore[id].categories, "news")

\* two list handlers were suspended together, one sighted u1 under tech and
\* the other under business; alice and bob have both liked u1
C25_Witness ==
    /\ \E s, t \in DOMAIN pending :
          /\ pending[s].at = "done" /\ pending[s].category = "tech"
          /\ pending[s].overlapped
          /\ pending[s].upserted # <<>>
          /\ pending[t].at = "done" /\ pending[t].category = "business"
          /\ pending[t].upserted # <<>>
    /\ Sha1Url("u1") \in DOMAIN articleStore \cap DOMAIN likesDB
    /\ Range(articleStore[Sha1Url("u1")].categories) = {"tech", "business", "news"}
    /\ Range(likesDB[Sha1Url("u1")].users) = {"alice", "bob"}
    /\ likesDB[Sha1Url("u1")].count = 2

\* C26: a like toggle whose flush fails is applied to the memory exactly
\* once and the file is left as it was: the user enters the like-set and
\* count grows by one, or, when the user was in it (the repeat of the same
\* request), leaves it and count shrinks by one.
C26_FailedFlushKeepsToggle ==
    [][(resp = NoResponse /\ resp'.op = "like" /\ resp'.saved = "failed") =>
          LET id == resp'.id
              u == resp'.username
              before == IF id \in DOMAIN likesDB THEN likesDB[id]
                        ELSE [count |-> 0, users |-> <<>>]
          IN  /\ id \in DOMAIN likesDB'
              /\ Range(likesDB'[id].users) =
                    (IF u \in Range(before.users) THEN Range(before.users) \ {u}
                     ELSE Range(before.users) \cup {u})
              /\ likesDB'[id].count =
                    (IF u \in Range(before.users) THEN before.count - 1
                     ELSE before.count + 1)
              /\ \A other \in DOMAIN likesDB \ {id} :
                    other \in DOMAIN likesDB' /\ likesDB'[other] = likesDB[other]
              /\ disk' = disk]_vars

\* alice has liked and, repeating the request, unliked an article that bob
\* likes; no flush has succeeded since the start, so no file was written
C26_Witness ==
    /\ resp.op = "like"
    /\ resp.saved = "failed"
    /\ resp.username = "alice"
    /\ resp.id \in DOMAIN likesDB
    /\ likesDB[resp.id].users = <<"bob">>
    /\ likesDB[resp.id].count = 1
    /\ parity[resp.id]["alice"] = 0
    /\ disk = NoFile

(***************************************************************************)
(* Claims about the ids of one response.                                   *)
(***************************************************************************)

\* C27: the items of a list response served from upstream, before
\* pagination, have pairwise distinct ids, for the aggregate and for a
\* single category, also when the feed repeats a url or holds several
\* records without url.
C27_DistinctIds ==
    (resp.op = "list" /\ ~resp.degraded) =>
        NoDuplicates([i \in 1..Len(resp.filtered) |-> resp.filtered[i].id])

(***************************************************************************)
(* Claims about the ids of the engagement records.                         *)
(***************************************************************************)

\* C30: every article id that has a like record or a comment list is the
\* id of an article of the catalogue; a like or a comment for another id
\* creates no record.
C30_EngagementRefersToCatalog ==
    (DOMAIN likesDB \cup DOMAIN commentsDB) \subseteq DOMAIN articleStore

(***************************************************************************)
(* Claims about the page in the browser.                                   *)
(***************************************************************************)

\* C28: every card in the feed answers a request made for the category and
\* the query now selected, also when a category switch or a search came
\* while a loadMore request was in flight.
C28_FeedOfCurrentSelection ==
    \A k \in 1..Len(feed) :
        /\ feed[k].category = state.category
        /\ feed[k].q = state.q

\* a list request leaves the page
Asks == Len(fetches') > Len(fetches)

\* C29: at most one list request is in flight; within a selection the pages
\* are asked for in the order 1, 2, 3, ...; a refresh that came while a
\* request was in flight is followed by the request for page 1 of the new
\* selection; busy goes back to false after every request.
C29_PagingProgress ==
    /\ [](Len(fetches) <= 1)
    /\ [][Asks => /\ fetches'[Len(fetches')].page = asked'
                  /\ fetches'[Len(fetches')].category = state'.category
                  /\ fetches'[Len(fetches')].q = state'.q
                  /\ \/ asked' = asked + 1
                     \/ asked' = 1 /\ feed' = <<>>]_vars     \* after a refresh
    /\ ((state.busy /\ asked = 0) ~> (asked = 1))
    /\ (state.busy ~> ~state.busy)

====
